---- MODULE Spec2Model ----
(***************************************************************************)
(* Model of the ColumnList component                                       *)
(* (chat2db-client/src/blocks/DatabaseTableEditor/ColumnList/index.tsx):   *)
(* the ordered list of column records (dataSource), the key of the row in  *)
(* edit mode (editingKey), the antd form store that buffers the edited     *)
(* row's fields, the drag-and-drop reorder and the add / delete / up /     *)
(* down commands.                                                          *)
(*                                                                         *)
(* JavaScript values are represented as follows.  An object is a function  *)
(* from its own property names to values, so that a missing property and a *)
(* property holding undefined stay distinct.  Strings, null and undefined  *)
(* are strings ("null", "undefined"); a uuid is the decimal string of a    *)
(* counter that is never reused.  Array indices are 0-based as in the      *)
(* source, -1 being findIndex's "not found".                               *)
(***************************************************************************)
EXTENDS Integers, Sequences, FiniteSets, TLC

VARIABLES
    dataSource,             \* useState<Item[]>([])            (line 74)
    form,                   \* the store of Form.useForm()     (line 75)
    editingKey,             \* useState('')                    (line 76)
    databaseFieldTypeList,  \* useState<string[]>([])          (line 77)
    fetchSettled,           \* the promise of getDatabaseFieldTypeList is settled
    nextUuid,               \* number of uuids handed out so far, plus one
    nChanges,               \* number of field-change events so far
    last                    \* the last event processed and its arguments

vars == <<dataSource, form, editingKey, databaseFieldTypeList,
          fetchSettled, nextUuid, nChanges, last>>

----------------------------------------------------------------------------
(* Bounds of the model. *)

MaxUuid == 2        \* uuids handed out in one behaviour of Spec
MaxChanges == 1     \* field-change events in one behaviour of Spec
MaxLen == 3         \* rows of the lists SpecReorder starts from

----------------------------------------------------------------------------
(* JavaScript values. *)

Null == "null"
Undefined == "undefined"
EmptyString == ""

\* The value `undefined` as an array element: an object with no property.
NoItem == << >>

\* obj.f
Get(obj, f) == IF f \in DOMAIN obj THEN obj[f] ELSE Undefined

\* { ...a, ...b }
Spread(a, b) ==
    [f \in (DOMAIN a) \cup (DOMAIN b) |-> IF f \in DOMAIN b THEN b[f] ELSE a[f]]

\* array[i] for a 0-based index i
At(array, i) == array[i + 1]

Min(a, b) == IF a < b THEN a ELSE b
Max(a, b) == IF a > b THEN a ELSE b

\* array.findIndex(i => i.key === id)
findIndex(array, id) ==
    IF \E n \in 1..Len(array) : Get(array[n], "key") = id
    THEN (CHOOSE n \in 1..Len(array) :
            /\ Get(array[n], "key") = id
            /\ \A m \in 1..(n - 1) : Get(array[m], "key") # id) - 1
    ELSE -1

\* The start index Array.prototype.splice works with.
SpliceStart(array, start) ==
    IF start < 0 THEN Max(Len(array) + start, 0) ELSE Min(start, Len(array))

\* The array left by array.splice(start, 1)
SpliceRemove(array, start) ==
    LET s == SpliceStart(array, start)
    IN  IF s < Len(array)
        THEN SubSeq(array, 1, s) \o SubSeq(array, s + 2, Len(array))
        ELSE array

\* array.splice(start, 1)[0]
SpliceRemoved(array, start) ==
    LET s == SpliceStart(array, start)
    IN  IF s < Len(array) THEN array[s + 1] ELSE NoItem

\* The array left by array.splice(start, 0, item)
SpliceInsert(array, start, item) ==
    LET s == SpliceStart(array, start)
    IN  SubSeq(array, 1, s) \o <<item>> \o SubSeq(array, s + 1, Len(array))

\* arrayMove of @dnd-kit/sortable: the insertion index is computed from the
\* array's length before the element is removed.
arrayMove(array, from, to) ==
    LET insertAt == IF to < 0 THEN Len(array) + to ELSE to
    IN  SpliceInsert(SpliceRemove(array, from), insertAt, SpliceRemoved(array, from))

----------------------------------------------------------------------------
(* The table metadata supplied by the parent and the rows mapped from it. *)

\* v4 of uuid: the n-th identifier handed out.
uuidv4(n) == ToString(n)

\* Columns of the table metadata.
ColumnA ==
    [name |-> "a", dataType |-> "10", columnType |-> "varchar", nullable |-> 0,
     comment |-> "ca"]
ColumnB ==
    [name |-> "b", dataType |-> "20", columnType |-> "int", nullable |-> 1,
     comment |-> Undefined]

\* The column list A, B, A, ... of n columns.
ColumnList(n) == [m \in 1..n |-> IF m % 2 = 1 THEN ColumnA ELSE ColumnB]

\* The column lists the parent supplies.
ColumnLists == {ColumnList(0), ColumnList(1), ColumnList(2)}

\* The values of tableDetails: null, an object without columnList, an object
\* with a columnList.
TableDetailsValues ==
    {[isNull |-> TRUE], [isNull |-> FALSE]}
        \cup {[isNull |-> FALSE, columnList |-> l] : l \in ColumnLists}

\* The number of uuids the tableDetails effect draws.
UuidsDrawn(td) ==
    IF ~td.isNull /\ "columnList" \in DOMAIN td THEN Len(td.columnList) ELSE 0

\* MapColumnList with uuidv4() called once, outside the map.
MapColumnList_OneKey(td, firstUuid) ==
    IF "columnList" \in DOMAIN td
    THEN [n \in 1..Len(td.columnList) |->
            LET t == td.columnList[n]
            IN  [key |-> uuidv4(firstUuid),
                 columnName |-> t.name,
                 length |-> t.dataType,
                 fieldType |-> t.columnType,
                 nullable |-> (t.nullable = 0),
                 comment |-> t.comment]]
    ELSE << >>

\* tableDetails?.columnList?.map(t => ({key: uuidv4(), ...})) || []
MapColumnList(td, firstUuid) ==
    IF "columnList" \in DOMAIN td
    THEN [n \in 1..Len(td.columnList) |->
            LET t == td.columnList[n]
            IN  [key |-> uuidv4(firstUuid + n - 1),
                 columnName |-> t.name,
                 length |-> t.dataType,
                 fieldType |-> t.columnType,
                 nullable |-> (t.nullable = 0),
                 comment |-> t.comment]]
    ELSE << >>

\* The type names the field-type service can answer with.
FieldTypeAnswers == {<<"int">>}

----------------------------------------------------------------------------
(* The edit session and the form store. *)

\* record.key === editingKey
isEditing(record, key) == Get(record, "key") = key

\* The names of the Form.Item controls the columns render.
FormItemNames == {"columnName", "length", "fieldType", "nullable", "comment"}

\* The Form.Items mounted by the last render: nullable in every row, the others
\* in the row in edit mode.
RegisteredFields(list, key) ==
    {f \in FormItemNames :
        \/ f = "nullable" /\ Len(list) > 0
        \/ f # "nullable" /\ \E n \in 1..Len(list) : isEditing(list[n], key)}

\* form.setFieldsValue(values): the store takes the properties values has.
setFieldsValue(store, values) == Spread(store, values)

\* form.getFieldsValue(): the store's value of every registered field.
getFieldsValue(store, registered) == [f \in registered |-> Get(store, f)]

\* What the user can enter in a control.
InputValues(f, options) ==
    CASE f = "columnName" -> {"x"}
      [] f = "length" -> {"7"}
      [] f = "fieldType" -> {options[n] : n \in 1..Len(options)}
      [] f = "nullable" -> BOOLEAN
      [] f = "comment" -> {"c"}

----------------------------------------------------------------------------
(* The handlers, as functions of the state they read. *)

\* onDragEndList with the two indices handed to arrayMove in the wrong order.
onDragEndList_Swapped(previous, activeId, overId) ==
    IF activeId # overId
    THEN arrayMove(previous, findIndex(previous, overId), findIndex(previous, activeId))
    ELSE previous

\* onDragEndList with the dragged row written over the row it is dropped on.
onDragEndList_Overwrite(previous, activeId, overId) ==
    IF activeId # overId /\ findIndex(previous, overId) # -1
    THEN [previous EXCEPT ![findIndex(previous, overId) + 1] =
                              At(previous, findIndex(previous, activeId))]
    ELSE previous

\* onDragEnd's updater
onDragEndList(previous, activeId, overId) ==
    IF activeId # overId
    THEN arrayMove(previous, findIndex(previous, activeId), findIndex(previous, overId))
    ELSE previous

\* formChangeList without the test for the row in the session.
formChangeList_EveryRow(list, key, newData) ==
    [n \in 1..Len(list) |-> Spread(list[n], newData)]

\* formChange's new list
formChangeList(list, key, newData) ==
    [n \in 1..Len(list) |->
        IF isEditing(list[n], key) THEN Spread(list[n], newData) ELSE list[n]]

\* addData's new record
NewData(uuid) ==
    [key |-> uuid, columnName |-> EmptyString, length |-> Null, fieldType |-> Null,
     nullable |-> FALSE]

\* addDataList with the new record put first.
addDataList_First(list, newData) == <<newData>> \o list

\* addData's new list
addDataList(list, newData) == Append(list, newData)

\* deleteDataList with the filter's test inverted.
deleteDataList_Inverted(list, key) == SelectSeq(list, LAMBDA i : Get(i, "key") = key)

\* deleteDataList with the list left as it is.
deleteDataList_Nothing(list, key) == list

\* deleteData's new list
deleteDataList(list, key) == SelectSeq(list, LAMBDA i : Get(i, "key") # key)

\* moveDataList without the test for the first row: the row goes to the end.
moveDataList_NoFirstTest(list, key, action) ==
    LET index == findIndex(list, key)
    IN  IF index = -1 THEN list
        ELSE IF action = "up"
        THEN IF index = 0 THEN SubSeq(list, 2, Len(list)) \o <<list[1]>>
             ELSE [list EXCEPT ![index + 1] = At(list, index - 1),
                               ![index] = At(list, index)]
        ELSE IF index = Len(list) - 1 THEN list
             ELSE [list EXCEPT ![index + 1] = At(list, index + 1),
                               ![index + 2] = At(list, index)]

\* moveDataList with "up" exchanging the row with the first row.
moveDataList_ToTop(list, key, action) ==
    LET index == findIndex(list, key)
    IN  IF index = -1 THEN list
        ELSE IF action = "up"
        THEN IF index = 0 THEN list
             ELSE [list EXCEPT ![index + 1] = At(list, 0),
                               ![1] = At(list, index)]
        ELSE IF index = Len(list) - 1 THEN list
             ELSE [list EXCEPT ![index + 1] = At(list, index + 1),
                               ![index + 2] = At(list, index)]

\* moveData's new list
moveDataList(list, key, action) ==
    LET index == findIndex(list, key)
    IN  IF index = -1 THEN list
        ELSE IF action = "up"
        THEN IF index = 0 THEN list
             ELSE [list EXCEPT ![index + 1] = At(list, index - 1),
                               ![index] = At(list, index)]
        ELSE IF index = Len(list) - 1 THEN list
             ELSE [list EXCEPT ![index + 1] = At(list, index + 1),
                               ![index + 2] = At(list, index)]

----------------------------------------------------------------------------
(* The state machine.  Every event is handled to completion and the          *)
(* component is rendered again before the next one, so a handler reads the   *)
(* state its predecessor left.                                               *)

Init ==
    /\ dataSource = << >>
    /\ form = << >>
    /\ editingKey = EmptyString
    /\ databaseFieldTypeList = << >>
    /\ fetchSettled = FALSE
    /\ nextUuid = 1
    /\ nChanges = 0
    /\ last = [op |-> "mount"]

\* TableDetailsEffect with the mapped rows added to the rows the list has.
TableDetailsEffect_Merge(td) ==
    /\ nextUuid + UuidsDrawn(td) - 1 <= MaxUuid
    /\ IF ~td.isNull
       THEN /\ dataSource' = dataSource \o MapColumnList(td, nextUuid)
            /\ nextUuid' = nextUuid + UuidsDrawn(td)
       ELSE UNCHANGED <<dataSource, nextUuid>>
    /\ last' = [op |-> "tableDetails", td |-> td]
    /\ UNCHANGED <<form, editingKey, databaseFieldTypeList, fetchSettled, nChanges>>

\* useEffect([tableDetails]): the parent supplies table metadata.
TableDetailsEffect(td) ==
    /\ nextUuid + UuidsDrawn(td) - 1 <= MaxUuid
    /\ IF ~td.isNull
       THEN /\ dataSource' = MapColumnList(td, nextUuid)
            /\ nextUuid' = nextUuid + UuidsDrawn(td)
       ELSE UNCHANGED <<dataSource, nextUuid>>
    /\ last' = [op |-> "tableDetails", td |-> td]
    /\ UNCHANGED <<form, editingKey, databaseFieldTypeList, fetchSettled, nChanges>>

\* FieldTypeListThen with the edit session closed by the answer.
FieldTypeListThen_EndsSession(res) ==
    /\ ~fetchSettled
    /\ fetchSettled' = TRUE
    /\ databaseFieldTypeList' = res
    /\ editingKey' = EmptyString
    /\ last' = [op |-> "fieldTypeList"]
    /\ UNCHANGED <<dataSource, form, nextUuid, nChanges>>

\* getDatabaseFieldTypeList(...).then(res => ...): the fetch answers.  The
\* promise has no rejection handler: a fetch that fails or never answers runs
\* no code of the component and is no step.
FieldTypeListThen(res) ==
    /\ ~fetchSettled
    /\ fetchSettled' = TRUE
    /\ databaseFieldTypeList' = res
    /\ last' = [op |-> "fieldTypeList"]
    /\ UNCHANGED <<dataSource, form, editingKey, nextUuid, nChanges>>

\* BeginEdit with the row that was in edit mode dropped from the list.
BeginEdit_Discard(n) ==
    /\ n \in 1..Len(dataSource)
    /\ ~isEditing(dataSource[n], editingKey)
    /\ form' = setFieldsValue(form, dataSource[n])
    /\ editingKey' = dataSource[n].key
    /\ dataSource' = deleteDataList(dataSource, editingKey)
    /\ last' = [op |-> "beginEdit", index |-> n - 1]
    /\ UNCHANGED <<databaseFieldTypeList, fetchSettled, nextUuid, nChanges>>

\* edit(record): a click on a read-only cell of row n.
BeginEdit(n) ==
    /\ n \in 1..Len(dataSource)
    /\ ~isEditing(dataSource[n], editingKey)
    /\ form' = setFieldsValue(form, dataSource[n])
    /\ editingKey' = dataSource[n].key
    /\ last' = [op |-> "beginEdit", index |-> n - 1]
    /\ UNCHANGED <<dataSource, databaseFieldTypeList, fetchSettled, nextUuid, nChanges>>

\* A change event of the control f: its Form.Item stores the value, the event
\* bubbles to the form and formChange runs.
FieldChange(f, v) ==
    /\ nChanges < MaxChanges
    /\ f \in RegisteredFields(dataSource, editingKey)
    /\ v \in InputValues(f, databaseFieldTypeList)
    /\ form' = setFieldsValue(form, [g \in {f} |-> v])
    /\ dataSource' =
         formChangeList(dataSource, editingKey,
                        getFieldsValue(form', RegisteredFields(dataSource, editingKey)))
    /\ nChanges' = nChanges + 1
    /\ last' = [op |-> "fieldChange"]
    /\ UNCHANGED <<editingKey, databaseFieldTypeList, fetchSettled, nextUuid>>

\* addData
AddData ==
    /\ nextUuid <= MaxUuid
    /\ LET newData == NewData(uuidv4(nextUuid))
       IN  /\ dataSource' = addDataList(dataSource, newData)
           /\ form' = setFieldsValue(form, newData)
           /\ editingKey' = newData.key
    /\ nextUuid' = nextUuid + 1
    /\ last' = [op |-> "add"]
    /\ UNCHANGED <<databaseFieldTypeList, fetchSettled, nChanges>>

\* deleteData
DeleteData ==
    /\ dataSource' = deleteDataList(dataSource, editingKey)
    /\ last' = [op |-> "delete", index |-> findIndex(dataSource, editingKey)]
    /\ UNCHANGED <<form, editingKey, databaseFieldTypeList, fetchSettled, nextUuid,
                   nChanges>>

\* moveData(action)
MoveData(action) ==
    /\ dataSource' = moveDataList(dataSource, editingKey, action)
    /\ last' = [op |-> "moveData", action |-> action,
                index |-> findIndex(dataSource, editingKey)]
    /\ UNCHANGED <<form, editingKey, databaseFieldTypeList, fetchSettled, nextUuid,
                   nChanges>>

\* The ids `over?.id` can have when a drag ends: the id of a row, or undefined
\* when the row is dropped over nothing.
OverIds == {Get(dataSource[n], "key") : n \in 1..Len(dataSource)} \cup {Undefined}

\* onDragEnd({active, over}): row n, picked up by its handle, is dropped.
OnDragEnd(n, overId) ==
    /\ n \in 1..Len(dataSource)
    /\ overId \in OverIds
    /\ dataSource' = onDragEndList(dataSource, dataSource[n].key, overId)
    /\ last' = [op |-> "dragEnd",
                drop |-> IF overId = Undefined THEN "nothing"
                         ELSE IF overId = dataSource[n].key THEN "itself" ELSE "row"]
    /\ UNCHANGED <<form, editingKey, databaseFieldTypeList, fetchSettled, nextUuid,
                   nChanges>>

Next ==
    \/ \E td \in TableDetailsValues : TableDetailsEffect(td)
    \/ \E res \in FieldTypeAnswers : FieldTypeListThen(res)
    \/ \E n \in 1..Len(dataSource) : BeginEdit(n)
    \/ \E f \in FormItemNames : \E v \in InputValues(f, databaseFieldTypeList) :
          FieldChange(f, v)
    \/ AddData
    \/ DeleteData
    \/ \E action \in {"up", "down"} : MoveData(action)
    \/ \E n \in 1..Len(dataSource) : \E overId \in OverIds : OnDragEnd(n, overId)

Spec == Init /\ [][Next]_vars

----------------------------------------------------------------------------
(* The reorder operations alone, started from any list of up to MaxLen rows  *)
(* with the session on none of them, on one of them, or on a row that was    *)
(* added and deleted again.                                                  *)

InitReorder ==
    \E n \in 0..MaxLen : \E k \in 0..(n + 1) :
        /\ dataSource = MapColumnList([isNull |-> FALSE, columnList |-> ColumnList(n)], 1)
        /\ editingKey = IF k = 0 THEN EmptyString ELSE uuidv4(k)
        /\ form = IF k = 0 THEN << >>
                  ELSE IF k <= n THEN setFieldsValue(<< >>, dataSource[k])
                  ELSE setFieldsValue(<< >>, NewData(uuidv4(k)))
        /\ nextUuid = IF k <= n THEN n + 1 ELSE n + 2
        /\ databaseFieldTypeList = << >>
        /\ fetchSettled = FALSE
        /\ nChanges = 0
        /\ last = [op |-> "mount"]

NextReorder ==
    \/ \E action \in {"up", "down"} : MoveData(action)
    \/ \E n \in 1..Len(dataSource) : \E overId \in OverIds : OnDragEnd(n, overId)

SpecReorder == InitReorder /\ [][NextReorder]_vars

----------------------------------------------------------------------------
(* Two events handled before the component is rendered again.  A handler is  *)
(* a closure of the last render: it reads that render's dataSource and       *)
(* editingKey, whatever setDataSource calls are queued.  React applies the   *)
(* queued updates in order; setDataSource(value) replaces the list and       *)
(* setDataSource(previous => ...) is applied to the list the queue has       *)
(* produced so far.                                                          *)

\* moveData returns before any setDataSource.
moveDataReturns(list, key, action) ==
    LET index == findIndex(list, key)
    IN  \/ index = -1
        \/ action = "up" /\ index = 0
        \/ action = "down" /\ index = Len(list) - 1

\* The component renders the list: dataSource.map((i) => i.key) and the
\* columns' render functions read a property of every element, which throws
\* for an element that is undefined and takes the component down.
Renders(list) == \A n \in 1..Len(list) : list[n] # NoItem

\* The events a rendered list offers: the buttons, a change of a text control
\* of the row in edit mode, the drop of a row.
EventsOf(list, key, options) ==
    IF ~Renders(list) THEN {}
    ELSE
    {[type |-> "add"], [type |-> "delete"]}
        \cup {[type |-> "moveData", action |-> a] : a \in {"up", "down"}}
        \cup {[type |-> "fieldChange", field |-> f, value |-> v] :
                 f \in RegisteredFields(list, key) \ {"nullable"},
                 v \in {"x", "7", "c"} \cup {options[n] : n \in 1..Len(options)}}
        \cup {[type |-> "dragEnd", activeId |-> a, overId |-> o] :
                 a \in {list[n].key : n \in 1..Len(list)},
                 o \in {list[n].key : n \in 1..Len(list)} \cup {Undefined}}

\* The form store after the handler of event e: addData's edit(newData) and a
\* control's Form.Item write to it.
FormAfter(e, store, uuid) ==
    CASE e.type = "add" -> setFieldsValue(store, NewData(uuidv4(uuid)))
      [] e.type = "fieldChange" -> setFieldsValue(store, [g \in {e.field} |-> e.value])
      [] OTHER -> store

\* The value of editingKey after the handler of event e and a render.
KeyAfter(e, key, uuid) == IF e.type = "add" THEN uuidv4(uuid) ELSE key

\* The uuid counter after the handler of event e.
UuidAfter(e, uuid) == IF e.type = "add" THEN uuid + 1 ELSE uuid

\* The change events counted for event e.
ChangesOf(e) == IF e.type = "fieldChange" THEN 1 ELSE 0

\* The update the handler of event e queues when the render it closes over
\* had the list `list` and the key `key`: none, setDataSource(value), or
\* setDataSource(previous => ...).
Update(e, list, key, store, uuid) ==
    CASE e.type = "add" ->
            [kind |-> "value", value |-> addDataList(list, NewData(uuidv4(uuid)))]
      [] e.type = "delete" ->
            [kind |-> "value", value |-> deleteDataList(list, key)]
      [] e.type = "moveData" ->
            IF moveDataReturns(list, key, e.action)
            THEN [kind |-> "none"]
            ELSE [kind |-> "value", value |-> moveDataList(list, key, e.action)]
      [] e.type = "fieldChange" ->
            [kind |-> "value",
             value |-> formChangeList(list, key,
                          getFieldsValue(FormAfter(e, store, uuid),
                                         RegisteredFields(list, key)))]
      [] e.type = "dragEnd" ->
            IF e.activeId # e.overId
            THEN [kind |-> "updater", activeId |-> e.activeId, overId |-> e.overId]
            ELSE [kind |-> "none"]

\* React applying one queued update to the list the queue has produced.
ApplyUpdate(update, previous) ==
    CASE update.kind = "none" -> previous
      [] update.kind = "value" -> update.value
      [] update.kind = "updater" ->
            onDragEndList(previous, update.activeId, update.overId)

\* The list after the events first and second were both handled by the
\* handlers of one render.
BatchList(first, second, list, key, store, uuid) ==
    ApplyUpdate(Update(second, list, key, FormAfter(first, store, uuid),
                       UuidAfter(first, uuid)),
                ApplyUpdate(Update(first, list, key, store, uuid), list))

\* Two events of the rendered component are handled before it is rendered
\* again.
Batch(first, second) ==
    /\ UuidAfter(second, UuidAfter(first, nextUuid)) - 1 <= MaxUuid
    /\ nChanges + ChangesOf(first) + ChangesOf(second) <= MaxChanges
    /\ dataSource' = BatchList(first, second, dataSource, editingKey, form, nextUuid)
    /\ form' = FormAfter(second, FormAfter(first, form, nextUuid),
                         UuidAfter(first, nextUuid))
    /\ editingKey' = KeyAfter(second, KeyAfter(first, editingKey, nextUuid),
                              UuidAfter(first, nextUuid))
    /\ nextUuid' = UuidAfter(second, UuidAfter(first, nextUuid))
    /\ nChanges' = nChanges + ChangesOf(first) + ChangesOf(second)
    /\ last' = [op |-> "batch"]
    /\ UNCHANGED <<databaseFieldTypeList, fetchSettled>>

NextBatch ==
    \/ Renders(dataSource) /\ AddData
    \/ Renders(dataSource) /\ DeleteData
    \/ \E action \in {"up", "down"} : Renders(dataSource) /\ MoveData(action)
    \/ \E n \in 1..Len(dataSource) : \E overId \in OverIds :
          Renders(dataSource) /\ OnDragEnd(n, overId)
    \/ \E first, second \in EventsOf(dataSource, editingKey, databaseFieldTypeList) :
          Batch(first, second)

SpecBatch == InitReorder /\ [][NextBatch]_vars

----------------------------------------------------------------------------
(* Properties. *)

\* The keys of the rows of a list.
Keys(list) == {list[n].key : n \in 1..Len(list)}

\* C1: the edit session is either inactive (editingKey is '') or references
\* the key of a row of the list; in particular it is inactive once delete()
\* has removed the row it referenced.
C1_SessionReferencesRow ==
    editingKey = EmptyString \/ editingKey \in Keys(dataSource)

\* C2: the keys of the rows of the list are pairwise distinct in every
\* reachable state.
C2_KeysDistinct ==
    \A i, j \in 1..Len(dataSource) :
        i # j => dataSource[i].key # dataSource[j].key

\* Two rows, reordered by a drag, the second of them added by the user.
C2_Witness ==
    /\ last.op = "dragEnd"
    /\ Len(dataSource) = 2
    /\ dataSource[1].key = uuidv4(2)
    /\ "comment" \notin DOMAIN dataSource[1]

\* A list without the rows of key id.
Without(list, id) == SelectSeq(list, LAMBDA i : i.key # id)

\* A list without its row at the 0-based index i.
WithoutIndex(list, i) == SubSeq(list, 1, i) \o SubSeq(list, i + 2, Len(list))

\* C3: for ids a and b of rows of the list, the drag-end reorder of a onto b
\* yields a permutation of the rows in which a sits at the index b had and
\* the other rows keep their relative order.
C3_MoveRelocates ==
    \A a, b \in Keys(dataSource) :
        LET moved == onDragEndList(dataSource, a, b)
        IN  /\ Len(moved) = Len(dataSource)
            /\ \A n \in 1..Len(dataSource) :
                   \E m \in 1..Len(moved) : moved[m] = dataSource[n]
            /\ At(moved, findIndex(dataSource, b)) = At(dataSource, findIndex(dataSource, a))
            /\ Without(moved, a) = Without(dataSource, a)

\* The list [1, 2, 3] after its third row was dragged onto its first.
C3_Witness ==
    /\ last.op = "dragEnd"
    /\ last.drop = "row"
    /\ Len(dataSource) = 3
    /\ <<dataSource[1].key, dataSource[2].key, dataSource[3].key>>
         = <<uuidv4(3), uuidv4(1), uuidv4(2)>>

\* C4: the drag-end reorder leaves the list as it was when the source id
\* equals the target id and when the target id is not in the list or is
\* missing: when the row is dropped on itself or over nothing.
C4_NoOpOnSameOrAbsent ==
    [][(last'.op = "dragEnd" /\ last'.drop \in {"itself", "nothing"})
          => dataSource' = dataSource]_vars

\* C5: delete() removes exactly the row the session references, the other
\* rows keeping their fields and order, and leaves the list unchanged when the
\* session references no row.
C5_DeleteRemovesSessionRow ==
    [][last'.op = "delete" =>
        LET index == findIndex(dataSource, editingKey)
        IN  IF index # -1
            THEN /\ Len(dataSource') = Len(dataSource) - 1
                 /\ editingKey \notin Keys(dataSource')
                 /\ dataSource' = WithoutIndex(dataSource, index)
            ELSE dataSource' = dataSource]_vars

\* delete() has removed the session's row from a list of two rows.
C5_Witness ==
    /\ last.op = "delete"
    /\ last.index >= 0
    /\ Len(dataSource) = 1

\* C6: add() makes the list one row longer, leaves the rows it had unchanged
\* and in place, puts a record with a fresh key and default fields last, and
\* leaves the session on that record.
C6_AddAppendsAndEdits ==
    [][last'.op = "add" =>
        LET added == dataSource'[Len(dataSource')]
        IN  /\ Len(dataSource') = Len(dataSource) + 1
            /\ SubSeq(dataSource', 1, Len(dataSource)) = dataSource
            /\ added.key \notin {uuidv4(n) : n \in 1..(nextUuid - 1)}
            /\ added.key \notin Keys(dataSource) \cup {EmptyString}
            /\ added.columnName = EmptyString
            /\ added.length = Null
            /\ added.fieldType = Null
            /\ added.nullable = FALSE
            /\ Get(added, "comment") = Undefined
            /\ editingKey' = added.key]_vars

\* add() has acted on a list that held a row.
C6_Witness ==
    /\ last.op = "add"
    /\ Len(dataSource) = 2
    /\ editingKey = dataSource[2].key

\* C7: a field-change event during a session on row X writes the form's
\* values into X only: X keeps its key, its place and the properties the form
\* does not supply, the other rows, the order and the length are unchanged,
\* and the session stays on X.
C7_FieldChangeMergesIntoSessionRow ==
    [][(last'.op = "fieldChange" /\ findIndex(dataSource, editingKey) # -1) =>
        LET x == findIndex(dataSource, editingKey) + 1
        IN  /\ Len(dataSource') = Len(dataSource)
            /\ \A n \in 1..Len(dataSource) : n # x => dataSource'[n] = dataSource[n]
            /\ dataSource'[x].key = dataSource[x].key
            /\ \A f \in FormItemNames : Get(dataSource'[x], f) = Get(form', f)
            /\ \A f \in (DOMAIN dataSource[x]) \ FormItemNames :
                   Get(dataSource'[x], f) = dataSource[x][f]
            /\ editingKey' = editingKey]_vars

\* The second of two rows is in the session and its columnName was changed.
C7_Witness ==
    /\ last.op = "fieldChange"
    /\ Len(dataSource) = 2
    /\ editingKey = dataSource[2].key
    /\ dataSource[2].columnName = "x"
    /\ dataSource[1].columnName = "a"

\* C8: after a session is opened on a record, by a click or by add(), the
\* form holds that record's value of every editable field.
C8_FormHoldsSessionRecord ==
    last.op \in {"beginEdit", "add"} =>
        \A n \in 1..Len(dataSource) :
            isEditing(dataSource[n], editingKey) =>
                \A f \in FormItemNames : Get(form, f) = Get(dataSource[n], f)

\* C9: moveData('up') on the first row, moveData('down') on the last row and
\* moveData when the session references no row leave the list and the session
\* unchanged.
C9_MoveDataNoOps ==
    [][last'.op = "moveData" =>
        LET index == findIndex(dataSource, editingKey)
        IN  (\/ index = -1
             \/ last'.action = "up" /\ index = 0
             \/ last'.action = "down" /\ index = Len(dataSource) - 1)
                => dataSource' = dataSource /\ editingKey' = editingKey]_vars

\* moveData('up') has acted with the session on the first of three rows.
C9_Witness ==
    /\ last.op = "moveData"
    /\ last.action = "up"
    /\ last.index = 0
    /\ Len(dataSource) = 3

\* C10: moveData('up') on a row that is not first gives the list the drag-end
\* reorder gives for that row and the row before it, moveData('down') on a row
\* that is not last the one it gives for that row and the row after it: the
\* two neighbours are exchanged and no other row moves.
C10_MoveDataIsMoveToNeighbour ==
    [][last'.op = "moveData" =>
        LET index == findIndex(dataSource, editingKey)
            other == IF last'.action = "up" THEN index - 1 ELSE index + 1
        IN  (index # -1 /\ other >= 0 /\ other <= Len(dataSource) - 1) =>
                /\ dataSource' = onDragEndList(dataSource, editingKey, At(dataSource, other).key)
                /\ At(dataSource', other) = At(dataSource, index)
                /\ At(dataSource', index) = At(dataSource, other)
                /\ \A n \in 0..(Len(dataSource) - 1) :
                       n \notin {index, other} => At(dataSource', n) = At(dataSource, n)]_vars

\* moveData('up') has acted with the session on the third of three rows.
C10_Witness ==
    /\ last.op = "moveData"
    /\ last.action = "up"
    /\ last.index = 2
    /\ Len(dataSource) = 3
    /\ editingKey = dataSource[2].key

\* Some row of the list is in edit mode: the session is active on a record.
SessionActive == \E n \in 1..Len(dataSource) : isEditing(dataSource[n], editingKey)

ColumnsOf(td) == IF "columnList" \in DOMAIN td THEN td.columnList ELSE << >>

C13_MissingMetadataEmptiesList ==
    [][(last'.op = "tableDetails"
          /\ (last'.td.isNull \/ "columnList" \notin DOMAIN last'.td))
        => dataSource' = << >>]_vars

\* The list after the event first was handled, the component rendered, and
\* the event second handled by the handlers of that render.
SequentialList(first, second, list, key, store, uuid) ==
    LET list1 == ApplyUpdate(Update(first, list, key, store, uuid), list)
    IN  ApplyUpdate(Update(second, list1, KeyAfter(first, key, uuid),
                           FormAfter(first, store, uuid), UuidAfter(first, uuid)),
                    list1)

\* C14: no mutation of the list is lost: when two events of the rendered
\* component are handled before it is rendered again, the list is the one the
\* second handler produces from the list the first produced, as if a render
\* lay between them (for a second event that render would still offer).
C14_NoMutationLost ==
    \A first, second \in EventsOf(dataSource, editingKey, databaseFieldTypeList) :
        second \in EventsOf(ApplyUpdate(Update(first, dataSource, editingKey, form,
                                               nextUuid), dataSource),
                            KeyAfter(first, editingKey, nextUuid),
                            databaseFieldTypeList)
          => BatchList(first, second, dataSource, editingKey, form, nextUuid)
               = SequentialList(first, second, dataSource, editingKey, form, nextUuid)

\* The number of elements of a list that equal the record r.
Count(list, r) == Cardinality({n \in 1..Len(list) : list[n] = r})

\* C15: a drag-end reorder and moveData change positions only: the list
\* keeps its length and holds the same records, each with its key and field
\* values, as often as before, and the session and the form are unchanged.
C15_ReorderKeepsRecords ==
    [][last'.op \in {"dragEnd", "moveData"} =>
        /\ Len(dataSource') = Len(dataSource)
        /\ \A n \in 1..Len(dataSource) :
               Count(dataSource', dataSource[n]) = Count(dataSource, dataSource[n])
        /\ Keys(dataSource') = Keys(dataSource)
        /\ editingKey' = editingKey
        /\ form' = form]_vars

\* The second of three rows, not the one in edit mode, was dragged to the top.
C15_Witness ==
    /\ last.op = "dragEnd"
    /\ last.drop = "row"
    /\ Len(dataSource) = 3
    /\ <<dataSource[1].key, dataSource[2].key, dataSource[3].key>>
         = <<uuidv4(2), uuidv4(1), uuidv4(3)>>
    /\ dataSource[1].columnName = "b"
    /\ editingKey = uuidv4(3)

\* The 1-based positions of the rows in edit mode.
RowsInEditMode(list, key) == {n \in 1..Len(list) : isEditing(list[n], key)}

\* C16: at most one row is in edit mode, and a click on a read-only cell of
\* row Y puts Y, and no other row, in edit mode and leaves the list unchanged,
\* the values earlier field changes wrote into other rows included.
C16_SwitchingRowsKeepsList ==
    [][/\ Cardinality(RowsInEditMode(dataSource', editingKey')) <= 1
       /\ last'.op = "beginEdit" =>
            /\ RowsInEditMode(dataSource', editingKey') = {last'.index + 1}
            /\ editingKey' = At(dataSource, last'.index).key
            /\ dataSource' = dataSource]_vars

\* The session was moved from the first row, whose columnName a field change
\* had set, to the second.
C16_Witness ==
    /\ last.op = "beginEdit"
    /\ last.index = 1
    /\ Len(dataSource) = 2
    /\ dataSource[1].columnName = "x"
    /\ editingKey = dataSource[2].key

\* C17: the answer of the field-type fetch, wherever it falls among the
\* user's events, changes the list of selectable types only: the list, the
\* session and the form are as before it; and as long as the fetch has not
\* answered, the list of selectable types is empty.
C17_FetchChangesOptionsOnly ==
    [][/\ last'.op = "fieldTypeList" =>
            /\ dataSource' = dataSource
            /\ editingKey' = editingKey
            /\ form' = form
       /\ ~fetchSettled' => databaseFieldTypeList' = << >>]_vars

\* The fetch has answered during a session on a row a field change had
\* written to.
C17_Witness ==
    /\ last.op = "fieldTypeList"
    /\ databaseFieldTypeList = <<"int">>
    /\ Len(dataSource) = 2
    /\ editingKey = dataSource[1].key
    /\ dataSource[1].columnName = "x"

====
